---------------------------- MODULE Spec2Model ----------------------------
(***************************************************************************)
(* A model of ripdoc's skelebuild engine (src/src/skelebuild) and of the   *)
(* documentation cache (src/crates/ripdoc-cargo/src/cache.rs).             *)
(*                                                                         *)
(* Strings are sequences of tokens: "/w/a::m::X" is                        *)
(* <<"/w/a", "::", "m", "::", "X">>.  Equality, prefix, suffix and         *)
(* containment of strings are those of the token sequences.                *)
(***************************************************************************)
EXTENDS Integers, Sequences, FiniteSets, TLC

VARIABLES
    state_file,   \* content of skelebuild.json
    out_file,     \* the output file written last: its path and content
    raw_fs,       \* the files RawSource entries point at
    state,        \* run_skelebuild's local `state` when the last invocation returned
    last_in,      \* the argument of the most recent invocation
    last_act,     \* the last step taken
    last_result,  \* "ok" | "err": what the last invocation returned (its exit code)
    rebuilt,      \* whether the last invocation reached state.rebuild(..)
    sv_pc,        \* SkeleState::save in steps: its position
    sv_new,       \* SkeleState::save in steps: the state being saved
    sv_old,       \* SkeleState::save in steps: the file on disk when it began
    c_dir,        \* the cache directory: the inode behind each file name, 0 for none
    c_ino,        \* the positions of each inode that hold a chunk
    w_pc,         \* each writer's position in save_cached
    w_fd,         \* the inode each writer has open, 0 for none
    w_off,        \* the chunks each writer has written to its open file
    r_pc,         \* the reader's position in load_cached
    r_data,       \* the chunks the reader read
    r_seen,       \* what the reader's last load observed
    rn_in,        \* the crate, selection and configuration of the render pass
    rn_res,       \* what RenderState::render returned, and the state it left
    pp_in,        \* the text handed to Renderer::apply_postprocessors
    pp_out,       \* the text apply_postprocessors returned
    rn_prev       \* what the render pass before this one returned

vars == <<state_file, out_file, raw_fs, state, last_in, last_act, last_result, rebuilt,
          sv_pc, sv_new, sv_old, c_dir, c_ino, w_pc, w_fd, w_off, r_pc, r_data,
          r_seen, rn_in, rn_res, pp_in, pp_out, rn_prev>>

skele_vars == <<state_file, out_file, raw_fs, state, last_in, last_act, last_result, rebuilt>>
save_vars == <<sv_pc, sv_new, sv_old>>
cache_vars == <<c_dir, c_ino, w_pc, w_fd, w_off, r_pc, r_data, r_seen>>
render_vars == <<rn_in, rn_res, pp_in, pp_out, rn_prev>>

---------------------------------------------------------------------------
(* Bounds *)

MaxEntries == 3
SaveChunks == 2
CacheChunks == 2
MaxLines == 4
MaxRootItems == 3

---------------------------------------------------------------------------
(* Strings *)

IsPrefix(p, s) == Len(p) <= Len(s) /\ SubSeq(s, 1, Len(p)) = p

IsSuffix(p, s) == Len(p) <= Len(s) /\ SubSeq(s, Len(s) - Len(p) + 1, Len(s)) = p

Contains(s, p) ==
    \E i \in 0..(Len(s) - Len(p)) : SubSeq(s, i + 1, i + Len(p)) = p

\* str::split_once("::"): the index of the first "::" token, 0 when there is none
FirstSep(s) ==
    IF \E i \in 1..Len(s) : s[i] = "::"
    THEN CHOOSE i \in 1..Len(s) : s[i] = "::" /\ \A j \in 1..(i - 1) : s[j] # "::"
    ELSE 0

---------------------------------------------------------------------------
(* The environment: what the target specs resolve to and where items live *)

Cwd == "/w"

\* Entrypoint::Path when the entrypoint looks like a filesystem path
IsPathEntry(tok) == tok \in {"./a", "/w/a", "/w/c"}

IsRelative(tok) == tok \in {"./a"}

\* std::path::absolute: the working directory joined with a relative path
Absolute(tok) == IF tok = "./a" THEN "/w/a" ELSE tok

\* resolve_target: the package roots of a stored target path, or an error
ResolveTarget(path) ==
    LET e == path[1] IN
    IF e = "/w/a" THEN [ok |-> TRUE, roots |-> <<"/w/a">>]
    ELSE IF e = "b" THEN [ok |-> TRUE, roots |-> <<"/reg/b">>]
    ELSE IF e = "/w/c" THEN [ok |-> TRUE, roots |-> <<"/w/c">>]
    ELSE [ok |-> FALSE, roots |-> <<>>]

\* read_crate: the crate under /w/c does not build, the others load
ReadCrateOk(root) == root # "/w/c"

\* the item path of a stored target: what follows the entrypoint
ItemOf(path) ==
    IF FirstSep(path) = 0 THEN <<>> ELSE SubSeq(path, FirstSep(path) + 1, Len(path))

\* span.filename of the item a target resolves to
SpanFile(path) ==
    LET item == ItemOf(path) IN
    IF item = <<"X">> THEN "src/x.rs"
    ELSE IF item = <<"m", "::", "X">> THEN "src/m.rs"
    ELSE "src/lib.rs"

RawFiles == {"/w/r.rs"}

\* the line counts a raw file takes in the model
LineCounts == 1..2

\* a raw file as the session finds it: present, two lines long
FullFile == [exists |-> TRUE, lines |-> 2]

MissingFile == [exists |-> FALSE, lines |-> 0]

FileStates == {MissingFile}
                 \cup {[exists |-> TRUE, lines |-> n] : n \in LineCounts}

---------------------------------------------------------------------------
(* The persisted state *)

NoPath == "none"

DefaultOut == "skeleton.md"

DefaultState == [output_path |-> NoPath, entries |-> <<>>, plain |-> FALSE]

Target(path, implementation, raw_source) ==
    [type |-> "target", path |-> path,
     implementation |-> implementation, raw_source |-> raw_source]

Injection(content) == [type |-> "injection", content |-> content]

\* range is <<>> (no line range) or <<start, end>>
RawSource(file, range) == [type |-> "raw_source", file |-> file, range |-> range]

\* A file holding the first n of the SaveChunks chunks of the JSON of st
FileOf(st, n) == [present |-> TRUE, st |-> st, n |-> n]

AbsentFile == [present |-> FALSE, st |-> DefaultState, n |-> 0]

Serialized(st) == FileOf(st, SaveChunks)

\* A truncated JSON document does not parse
IsComplete(file) == file.present /\ file.n = SaveChunks

Load(file) == IF IsComplete(file) THEN file.st ELSE DefaultState

OutputPathOf(st) == IF st.output_path = NoPath THEN DefaultOut ELSE st.output_path

---------------------------------------------------------------------------
(* SkeleState::build_output: the grouping pass *)

TargetsGroup(root, targets) == [kind |-> "targets", pkg_root |-> root, targets |-> targets]

\* a planner that opens a new group for every target
PushTarget_AlwaysNew(groups, root, t) ==
    Append(groups, TargetsGroup(root, <<t>>))

\* push the target onto the last group when that is a Targets group of the
\* same package root, else open a new group
PushTarget(groups, root, t) ==
    IF /\ Len(groups) > 0
       /\ groups[Len(groups)].kind = "targets"
       /\ groups[Len(groups)].pkg_root = root
    THEN [groups EXCEPT ![Len(groups)] =
            TargetsGroup(root, Append(groups[Len(groups)].targets, t))]
    ELSE Append(groups, TargetsGroup(root, <<t>>))

\* `for rt in resolved`: a root whose crate fails to load is reported and skipped
RECURSIVE GroupRoots(_, _, _, _)
GroupRoots(acc, roots, k, t) ==
    IF k > Len(roots) THEN acc
    ELSE IF ~ReadCrateOk(roots[k])
         THEN GroupRoots([acc EXCEPT !.had_errors = TRUE], roots, k + 1, t)
         ELSE GroupRoots([acc EXCEPT !.groups = PushTarget(acc.groups, roots[k], t)],
                         roots, k + 1, t)

GroupEntry(acc, entry) ==
    IF entry.type = "target"
    THEN LET r == ResolveTarget(entry.path) IN
         IF ~r.ok THEN [acc EXCEPT !.had_errors = TRUE]
         ELSE GroupRoots(acc, r.roots, 1, entry)
    ELSE IF entry.type = "injection"
    THEN [acc EXCEPT !.groups = Append(acc.groups,
                        [kind |-> "injection", content |-> entry.content])]
    ELSE [acc EXCEPT !.groups = Append(acc.groups,
                        [kind |-> "raw_source", raw |-> entry])]

RECURSIVE GroupFrom(_, _, _)
GroupFrom(acc, entries, i) ==
    IF i > Len(entries) THEN acc
    ELSE GroupFrom(GroupEntry(acc, entries[i]), entries, i + 1)

GroupEntries(entries) ==
    GroupFrom([groups |-> <<>>, had_errors |-> FALSE], entries, 1)

---------------------------------------------------------------------------
(* SkeleState::build_output: the render pass *)

\* render_raw_source: the block of one RawSource, or an error
RenderRawSource(raw, fs) ==
    LET f == fs[raw.file]
        total == f.lines
        start == IF raw.range = <<>> THEN 1 ELSE raw.range[1]
        end == IF raw.range = <<>> THEN (IF total > 1 THEN total ELSE 1)
               ELSE raw.range[2]
    IN  IF ~f.exists THEN [ok |-> FALSE, block |-> <<>>]
        ELSE IF total = 0
             THEN [ok |-> TRUE,
                   block |-> [kind |-> "raw", file |-> raw.file, first |-> 0, last |-> 0]]
        ELSE IF start = 0 \/ end = 0 THEN [ok |-> FALSE, block |-> <<>>]
        ELSE IF start > end THEN [ok |-> FALSE, block |-> <<>>]
        ELSE IF start > total THEN [ok |-> FALSE, block |-> <<>>]
        ELSE [ok |-> TRUE,
              block |-> [kind |-> "raw", file |-> raw.file, first |-> start,
                         last |-> IF end < total THEN end ELSE total]]

\* the span files of the group's raw_source targets: a HashSet
RawFilesOf(targets) ==
    {SpanFile(targets[i].path) : i \in {j \in 1..Len(targets) : targets[j].raw_source}}

\* every order in which a HashSet of files may be iterated
Orders(S) ==
    {o \in [1..Cardinality(S) -> S] : \A i, j \in 1..Cardinality(S) : i # j => o[i] # o[j]}

\* the selection of the group: each target's item, rendered with its source
\* when `implementation` is set
SelectionOf(targets) ==
    {<<ItemOf(targets[i].path), targets[i].implementation>> : i \in 1..Len(targets)}

\* the text of one Targets group: the raw files in iteration order, then the
\* render of the selection
RenderTargets(group, plain, order) ==
    [kind |-> "rendered", pkg_root |-> group.pkg_root, raw_files |-> order,
     selection |-> SelectionOf(group.targets), plain |-> plain]

\* the outputs the render pass can produce from position i on; a RawSource
\* that fails to render aborts the pass
RECURSIVE RenderFrom(_, _, _, _, _)
RenderFrom(out, groups, i, plain, fs) ==
    IF i > Len(groups) THEN {[ok |-> TRUE, out |-> out]}
    ELSE LET g == groups[i] IN
         IF g.kind = "injection"
         THEN RenderFrom(Append(out, [kind |-> "text", content |-> g.content]),
                         groups, i + 1, plain, fs)
         ELSE IF g.kind = "raw_source"
         THEN LET r == RenderRawSource(g.raw, fs) IN
              IF r.ok THEN RenderFrom(Append(out, r.block), groups, i + 1, plain, fs)
              ELSE {[ok |-> FALSE, out |-> <<>>]}
         ELSE UNION {RenderFrom(Append(out, RenderTargets(g, plain, o)),
                                groups, i + 1, plain, fs)
                     : o \in Orders(RawFilesOf(g.targets))}

\* SkeleState::build_output: every result it can return
BuildOutput(st, fs) ==
    RenderFrom(<<>>, GroupEntries(st.entries).groups, 1, st.plain, fs)

\* std::path::absolute of an output path
AbsoluteOut(out) == IF out = "out.md" THEN "/w/out.md" ELSE out

WrittenFile(path, content) == [path |-> AbsoluteOut(path), content |-> content]

\* fs::write(&output_path, ..) fails when the directory of the path is missing
Writable(path) == path # "/nodir/out.md"

\* SkeleState::rebuild: the output file is written when build_output returned
\* Ok; an error of build_output or of the write is the error of the rebuild
RebuildResults(st, fs, file) ==
    {IF b.ok /\ Writable(OutputPathOf(st))
     THEN [ok |-> TRUE, file |-> WrittenFile(OutputPathOf(st), b.out)]
     ELSE [ok |-> FALSE, file |-> file]
     : b \in BuildOutput(st, fs)}

---------------------------------------------------------------------------
(* The pure parts of run_skelebuild's handlers *)

\* Target::parse: <entrypoint>(::<segment>)*
EntryOf(target) == target[1]

\* normalize_target_spec_for_storage: a relative path entrypoint is made
\* absolute, a name entrypoint is stored as given
NormalizeTargetSpec(target) ==
    IF IsPathEntry(EntryOf(target))
    THEN LET abs == IF IsRelative(EntryOf(target)) THEN Absolute(EntryOf(target))
                    ELSE EntryOf(target)
         IN  IF ItemOf(target) = <<>> THEN <<abs>>
             ELSE <<abs, "::">> \o ItemOf(target)
    ELSE target

\* validate_add_target_or_error: the target resolves, its crate loads and the
\* item path has a match (every item path of the model's crates has one)
ValidateAddTarget(path) ==
    \/ ItemOf(path) = <<>>
    \/ /\ ResolveTarget(path).ok
       /\ Len(ResolveTarget(path).roots) > 0
       /\ ReadCrateOk(ResolveTarget(path).roots[1])

HasTargetPath(entries, path) ==
    \E i \in 1..Len(entries) : entries[i].type = "target" /\ entries[i].path = path

\* an Add that appends without looking for the path
AddEntries_NoDedup(entries, path, implementation, raw_source) ==
    Append(entries, Target(path, implementation, raw_source))

\* Add: append the target unless an entry with the same stored path exists
AddEntries(entries, path, implementation, raw_source) ==
    IF HasTargetPath(entries, path) THEN entries
    ELSE Append(entries, Target(path, implementation, raw_source))

\* Vec::insert(index, e), index counted from 0
InsertAt(entries, index, e) ==
    SubSeq(entries, 1, index) \o <<e>> \o SubSeq(entries, index + 1, Len(entries))

\* target_entry_matches_spec
TargetEntryMatchesSpec(stored, spec) ==
    /\ spec # <<>>
    /\ \/ stored = spec
       \/ LET stored_item == IF FirstSep(stored) = 0 THEN stored ELSE ItemOf(stored) IN
          \/ stored_item = spec
          \/ IsSuffix(<<"::">> \o spec, stored_item)
          \/ Contains(stored_item, spec)

\* the indices (from 0) of the Target entries the spec matches
TargetMatches(entries, spec) ==
    {i - 1 : i \in {j \in 1..Len(entries) :
                      /\ entries[j].type = "target"
                      /\ TargetEntryMatchesSpec(entries[j].path, spec)}}

\* a lookup that settles for the first of several matches
FindTargetMatch_FirstMatch(entries, spec) ==
    LET m == TargetMatches(entries, spec) IN
    IF m # {} THEN [ok |-> TRUE, index |-> CHOOSE i \in m : \A j \in m : i <= j]
    ELSE [ok |-> FALSE, index |-> 0]

\* find_target_match: the index of the only match, or an error
FindTargetMatch(entries, spec) ==
    LET m == TargetMatches(entries, spec) IN
    IF Cardinality(m) = 1 THEN [ok |-> TRUE, index |-> CHOOSE i \in m : TRUE]
    ELSE [ok |-> FALSE, index |-> 0]

\* --after KEY: the entries whose path or content is KEY or starts with it
\* (a RawSource has neither and never matches)
AfterMatches(entries, key) ==
    {i - 1 : i \in {j \in 1..Len(entries) :
                      \/ /\ entries[j].type = "target"
                         /\ IsPrefix(key, entries[j].path)
                      \/ /\ entries[j].type = "injection"
                         /\ IsPrefix(key, entries[j].content)}}

IsStartKey(key) == key \in {<<"START">>, <<"TOP">>, <<"BEGIN">>}

\* an --at that takes the length of the list for an index out of range
InjectAt_OffByOne(entries, injection, index) ==
    IF index >= Len(entries) THEN [ok |-> FALSE, entries |-> entries]
    ELSE [ok |-> TRUE, entries |-> InsertAt(entries, index, injection)]

\* Inject --at N: an index beyond the length is an error, else Vec::insert
InjectAt(entries, injection, index) ==
    IF index > Len(entries) THEN [ok |-> FALSE, entries |-> entries]
    ELSE [ok |-> TRUE, entries |-> InsertAt(entries, index, injection)]

\* Inject: where the injection goes, by the first of --at, --before-target,
\* --after-target, --after that is given, else at the end
InjectEntries(entries, injection, pos) ==
    IF pos.kind = "at" THEN InjectAt(entries, injection, pos.index)
    ELSE IF pos.kind = "before_target"
    THEN LET m == FindTargetMatch(entries, pos.spec) IN
         IF ~m.ok THEN [ok |-> FALSE, entries |-> entries]
         ELSE [ok |-> TRUE, entries |-> InsertAt(entries, m.index, injection)]
    ELSE IF pos.kind = "after_target"
    THEN LET m == FindTargetMatch(entries, pos.spec) IN
         IF ~m.ok THEN [ok |-> FALSE, entries |-> entries]
         ELSE [ok |-> TRUE, entries |-> InsertAt(entries, m.index + 1, injection)]
    ELSE IF pos.kind = "after"
    THEN IF IsStartKey(pos.spec)
         THEN [ok |-> TRUE, entries |-> InsertAt(entries, 0, injection)]
         ELSE LET m == AfterMatches(entries, pos.spec) IN
              IF Cardinality(m) # 1 THEN [ok |-> FALSE, entries |-> entries]
              ELSE [ok |-> TRUE,
                    entries |-> InsertAt(entries, (CHOOSE i \in m : TRUE) + 1, injection)]
    ELSE [ok |-> TRUE, entries |-> Append(entries, injection)]

\* an Option<bool> flag of Update: "keep" is None
SetFlag(old, opt) == IF opt = "keep" THEN old ELSE opt = "true"

\* an Update that takes the entry out and pushes the changed one at the end
UpdateEntries_MoveToEnd(entries, spec, implementation, raw_source) ==
    LET m == FindTargetMatch(entries, spec) IN
    IF ~m.ok THEN [ok |-> FALSE, entries |-> entries]
    ELSE LET t == entries[m.index + 1] IN
         [ok |-> TRUE,
          entries |-> SubSeq(entries, 1, m.index)
                        \o SubSeq(entries, m.index + 2, Len(entries))
                        \o <<Target(t.path, SetFlag(t.implementation, implementation),
                                    SetFlag(t.raw_source, raw_source))>>]

\* Update: set the flags of the only Target entry the spec matches
UpdateEntries(entries, spec, implementation, raw_source) ==
    LET m == FindTargetMatch(entries, spec) IN
    IF ~m.ok THEN [ok |-> FALSE, entries |-> entries]
    ELSE [ok |-> TRUE,
          entries |-> [entries EXCEPT ![m.index + 1] =
              Target(@.path, SetFlag(@.implementation, implementation),
                     SetFlag(@.raw_source, raw_source))]]

\* the key of a RawSource entry: its file
RawSourceKey(e) == <<e.file>>

\* the key Remove compares with: a target's path, an injection's content
EntryKey(e) ==
    IF e.type = "target" THEN e.path
    ELSE IF e.type = "injection" THEN e.content
    ELSE RawSourceKey(e)

\* Vec::retain: the entries for which keep holds, in order
RECURSIVE RemoveFrom(_, _, _)
RemoveFrom(entries, key, i) ==
    IF i > Len(entries) THEN <<>>
    ELSE IF EntryKey(entries[i]) # key
         THEN <<entries[i]>> \o RemoveFrom(entries, key, i + 1)
         ELSE RemoveFrom(entries, key, i + 1)

\* a Remove that stops at the first entry it removes
RECURSIVE RemoveFirstFrom(_, _, _)
RemoveFirstFrom(entries, key, i) ==
    IF i > Len(entries) THEN <<>>
    ELSE IF EntryKey(entries[i]) # key
         THEN <<entries[i]>> \o RemoveFirstFrom(entries, key, i + 1)
         ELSE SubSeq(entries, i + 1, Len(entries))

RemoveEntries_FirstOnly(entries, key) == RemoveFirstFrom(entries, key, 1)

RemoveEntries(entries, key) == RemoveFrom(entries, key, 1)

\* AddRaw: the file exists and the line range is one render_raw_source accepts
ValidRawSpec(file, range, fs) ==
    /\ fs[file].exists
    /\ \/ range = <<>>
       \/ /\ range[1] >= 1
          /\ range[1] <= range[2]
          /\ range[1] <= fs[file].lines

---------------------------------------------------------------------------
(* run_skelebuild *)

\* the --output option: NoPath when it is not given
OutputOpts == {NoPath, "out.md", "/nodir/out.md"}

\* load the state and apply the --output and --plain options to it
Loaded(output, plain) ==
    LET st == Load(state_file) IN
    [st EXCEPT !.output_path = IF output # NoPath THEN AbsoluteOut(output) ELSE @,
               !.plain = IF plain THEN TRUE ELSE @]

NoInput == [kind |-> "none"]

\* the --output and --plain options of an invocation
Options(output, plain) == [kind |-> "options", output |-> output, plain |-> plain]

\* a handler whose error path still saves the state it loaded
Rejected_ThenSaves(act, inp, st) ==
    /\ state' = st
    /\ last_in' = inp
    /\ last_act' = act
    /\ last_result' = "err"
    /\ rebuilt' = FALSE
    /\ state_file' = Serialized(st)
    /\ UNCHANGED <<out_file, raw_fs, save_vars, cache_vars, render_vars>>

\* the handler returned an error before the rebuild: nothing is written
Rejected(act, inp, st) ==
    /\ state' = st
    /\ last_in' = inp
    /\ last_act' = act
    /\ last_result' = "err"
    /\ rebuilt' = FALSE
    /\ UNCHANGED <<state_file, out_file, raw_fs, save_vars, cache_vars, render_vars>>

\* the end of run_skelebuild: rebuild when asked, then save
Finish(act, inp, st, should_rebuild) ==
    /\ state' = st
    /\ last_in' = inp
    /\ last_act' = act
    /\ rebuilt' = should_rebuild
    /\ IF should_rebuild
       THEN \E r \in RebuildResults(st, raw_fs, out_file) :
               /\ out_file' = r.file
               /\ state_file' = IF r.ok THEN Serialized(st) ELSE state_file
               /\ last_result' = IF r.ok THEN "ok" ELSE "err"
       ELSE /\ out_file' = out_file
            /\ state_file' = Serialized(st)
            /\ last_result' = "ok"
    /\ UNCHANGED <<raw_fs, save_vars, cache_vars, render_vars>>

Add(target, implementation, raw_source, validate, output, plain) ==
    LET st == Loaded(output, plain)
        normalized == NormalizeTargetSpec(target)
        entries == AddEntries(st.entries, normalized, implementation, raw_source)
    IN  IF validate /\ ~ValidateAddTarget(normalized)
        THEN Rejected("Add", [kind |-> "target", spec |-> normalized], st)
        ELSE /\ Len(entries) <= MaxEntries
             /\ Finish("Add", [kind |-> "target", spec |-> normalized],
                       [st EXCEPT !.entries = entries], TRUE)

AddRaw(file, range, output, plain) ==
    LET st == Loaded(output, plain) IN
    IF ~ValidRawSpec(file, range, raw_fs)
    THEN Rejected("AddRaw", NoInput, st)
    ELSE /\ Len(st.entries) < MaxEntries
         /\ Finish("AddRaw", NoInput,
                   [st EXCEPT !.entries = Append(@, RawSource(file, range))], TRUE)

Inject(content, pos, output, plain) ==
    LET st == Loaded(output, plain)
        r == InjectEntries(st.entries, Injection(content), pos)
    IN  IF ~r.ok THEN Rejected("Inject", pos, st)
        ELSE /\ Len(r.entries) <= MaxEntries
             /\ Finish("Inject", pos, [st EXCEPT !.entries = r.entries], TRUE)

Update(spec, implementation, raw_source, output, plain) ==
    LET st == Loaded(output, plain)
        r == UpdateEntries(st.entries, spec, implementation, raw_source)
    IN  IF ~r.ok THEN Rejected("Update", [kind |-> "target", spec |-> spec], st)
        ELSE Finish("Update", [kind |-> "target", spec |-> spec],
                    [st EXCEPT !.entries = r.entries], TRUE)

Remove(key, output, plain) ==
    LET st == Loaded(output, plain)
        entries == RemoveEntries(st.entries, key)
    IN  /\ key # <<>>
        /\ Finish("Remove",
                  [kind |-> "key", spec |-> key,
                   removed |-> Len(st.entries) - Len(entries)],
                  [st EXCEPT !.entries = entries], TRUE)

\* a Reset that starts over from the default state
ResetState_Default(st, output, plain) == DefaultState

\* Reset: the entries are cleared, output_path and plain kept unless overridden
ResetState(st, output, plain) ==
    [DefaultState EXCEPT
        !.output_path = IF output # NoPath THEN output ELSE st.output_path,
        !.plain = plain \/ st.plain]

Reset(output, plain) ==
    /\ output \in OutputOpts
    /\ Finish("Reset", Options(output, plain), ResetState(Loaded(output, plain), output, plain), TRUE)

Rebuild(output, plain) ==
    /\ output \in OutputOpts
    /\ Finish("Rebuild", NoInput, Loaded(output, plain), TRUE)

Status(output, plain) ==
    /\ output \in OutputOpts
    /\ Finish("Status", Options(output, plain), Loaded(output, plain), FALSE)

\* between invocations the user edits, truncates, deletes or restores a file
FsChange(file, fstate) ==
    /\ raw_fs[file] # fstate
    /\ raw_fs' = [raw_fs EXCEPT ![file] = fstate]
    /\ last_act' = "FsChange"
    /\ last_in' = NoInput
    /\ UNCHANGED <<state_file, out_file, state, last_result, rebuilt, save_vars, cache_vars, render_vars>>

NoOutput == [path |-> NoPath, content |-> <<>>]

\* no render pass has run
NoRender == [kind |-> "none"]

RenderIdle ==
    /\ rn_in = NoRender
    /\ rn_res = NoRender
    /\ pp_in = <<>>
    /\ pp_out = NoRender
    /\ rn_prev = NoRender

SkeleInit ==
    /\ state_file = AbsentFile
    /\ out_file = NoOutput
    /\ raw_fs = [f \in RawFiles |-> FullFile]
    /\ state = DefaultState
    /\ last_in = NoInput
    /\ last_act = "none"
    /\ last_result = "ok"
    /\ rebuilt = FALSE

SaveIdle ==
    /\ sv_pc = "idle"
    /\ sv_new = DefaultState
    /\ sv_old = AbsentFile

CacheFiles == {"cache", "tmp"}

Writers == {1, 2}

Inodes == 1..4

CacheIdle ==
    /\ c_dir = [f \in CacheFiles |-> 0]
    /\ c_ino = [i \in Inodes |-> {}]
    /\ w_pc = [w \in Writers |-> "idle"]
    /\ w_fd = [w \in Writers |-> 0]
    /\ w_off = [w \in Writers |-> 0]
    /\ r_pc = "idle"
    /\ r_data = {}
    /\ r_seen = "nothing"

---------------------------------------------------------------------------
(* The inputs the model draws from *)

TX == <<"/w/a", "::", "X">>
TXrel == <<"./a", "::", "X">>
TMX == <<"/w/a", "::", "m", "::", "X">>
TZ == <<"b", "::", "Z">>
TQ == <<"gone", "::", "Q">>
TW == <<"/w/c", "::", "W">>

AddInput(t, i, r, v) ==
    [target |-> t, implementation |-> i, raw_source |-> r, validate |-> v]

Contents == {<<"## Intro">>}

MatchSpecs ==
    {<<"X">>, <<"m", "::", "X">>, <<"Z">>, <<"/w/a", "::", "X">>, <<"Nope">>}

AfterKeys == {<<"START">>, <<"/w/a">>, <<"b">>, <<"## Intro">>}

RemoveKeys == {TX, TZ, <<"## Intro">>, <<"/w/r.rs">>}

RawRanges == {<<>>, <<2, 2>>, <<0, 1>>, <<2, 1>>}

UpdateInput(sp, i, r) == [spec |-> sp, implementation |-> i, raw_source |-> r]

---------------------------------------------------------------------------
(* Spec: a session of skelebuild invocations that edit the entry list *)

EditAdds ==
    {AddInput(t, FALSE, FALSE, v) : t \in {TX, TXrel, TMX, TZ}, v \in BOOLEAN}
      \cup {AddInput(TQ, FALSE, FALSE, TRUE)}

EditPositions ==
    {[kind |-> "end"]}
      \cup {[kind |-> "at", index |-> n] : n \in 0..(MaxEntries + 1)}
      \cup {[kind |-> k, spec |-> sp] : k \in {"before_target", "after_target"},
                                        sp \in MatchSpecs}
      \cup {[kind |-> "after", spec |-> key] : key \in AfterKeys}

EditUpdates ==
    {UpdateInput(sp, i, "keep") : sp \in MatchSpecs, i \in {"true", "false"}}

Init == SkeleInit /\ SaveIdle /\ CacheIdle /\ RenderIdle

Next ==
    \/ \E a \in EditAdds :
          Add(a.target, a.implementation, a.raw_source, a.validate, NoPath, FALSE)
    \/ \E f \in RawFiles : AddRaw(f, <<>>, NoPath, FALSE)
    \/ \E c \in Contents, pos \in EditPositions : Inject(c, pos, NoPath, FALSE)
    \/ \E u \in EditUpdates :
          Update(u.spec, u.implementation, u.raw_source, NoPath, FALSE)
    \/ \E k \in RemoveKeys : Remove(k, NoPath, FALSE)
    \/ Reset(NoPath, FALSE)
    \/ Rebuild(NoPath, FALSE)
    \/ Status(NoPath, FALSE)

Spec == Init /\ [][Next]_vars

---------------------------------------------------------------------------
(* BuildSpec: a session that assembles entry lists of every kind, changes  *)
(* the raw files and rebuilds                                              *)

BuildAdds ==
    {AddInput(t, FALSE, TRUE, FALSE) : t \in {TX, TMX}}
      \cup {AddInput(t, FALSE, FALSE, FALSE) : t \in {TZ, TQ, TW}}
      \cup {AddInput(TW, FALSE, FALSE, TRUE)}

BuildNext ==
    \/ \E a \in BuildAdds :
          Add(a.target, a.implementation, a.raw_source, a.validate, NoPath, FALSE)
    \/ \E f \in RawFiles, rg \in RawRanges : AddRaw(f, rg, NoPath, FALSE)
    \/ \E c \in Contents, o \in {NoPath, "/nodir/out.md"} :
          Inject(c, [kind |-> "end"], o, FALSE)
    \/ \E k \in RemoveKeys : Remove(k, NoPath, FALSE)
    \/ Rebuild(NoPath, FALSE)
    \/ \E f \in RawFiles, fstate \in FileStates : FsChange(f, fstate)

BuildSpec == Init /\ [][BuildNext]_vars

---------------------------------------------------------------------------
(* OptionSpec: a session in which the invocations carry the --output and   *)
(* --plain options                                                         *)

OptionSets == {Options(o, p) : o \in {NoPath, "out.md"}, p \in BOOLEAN}

OptionNext ==
    \/ \E t \in {TX, TZ}, opt \in OptionSets :
          Add(t, FALSE, FALSE, FALSE, opt.output, opt.plain)
    \/ \E c \in Contents, opt \in OptionSets :
          Inject(c, [kind |-> "end"], opt.output, opt.plain)
    \/ \E opt \in OptionSets : Reset(opt.output, opt.plain)
    \/ \E opt \in OptionSets : Rebuild(opt.output, opt.plain)
    \/ \E opt \in OptionSets : Status(opt.output, opt.plain)

OptionSpec == Init /\ [][OptionNext]_vars

---------------------------------------------------------------------------
(* SaveSpec: SkeleState::save step by step.  fs::write opens the state     *)
(* file truncating it, writes the JSON in chunks and may fail at any       *)
(* chunk; a later invocation loads what is on disk and saves again.        *)

TruncatedFile == [present |-> TRUE, st |-> DefaultState, n |-> 0]

\* the file after k chunks of the JSON of st went into the emptied file
PartialFile(st, k) == IF k = 0 THEN TruncatedFile ELSE FileOf(st, k)

SaveStates ==
    {[output_path |-> o, entries |-> e, plain |-> FALSE] :
        o \in {NoPath, "/w/out.md"},
        e \in {<<>>, <<Target(TX, FALSE, FALSE)>>, <<Injection(<<"## Intro">>)>>,
               <<Target(TX, FALSE, FALSE), Injection(<<"## Intro">>)>>}}

\* fs::write, File::create: the file is emptied before anything is written
SaveOpen(st) ==
    /\ sv_pc \in {"idle", "failed"}
    /\ st # Load(state_file)
    /\ sv_old' = state_file
    /\ sv_new' = st
    /\ state_file' = TruncatedFile
    /\ sv_pc' = "writing"
    /\ UNCHANGED <<out_file, raw_fs, state, last_in, last_act, last_result, rebuilt, cache_vars, render_vars>>

\* fs::write, write_all: one more chunk
SaveWrite ==
    /\ sv_pc = "writing"
    /\ state_file.n < SaveChunks
    /\ state_file' = PartialFile(sv_new, state_file.n + 1)
    /\ UNCHANGED <<out_file, raw_fs, state, last_in, last_act, last_result, rebuilt,
                   sv_pc, sv_new, sv_old, cache_vars, render_vars>>

\* the write fails part-way (the disk is full, the process is killed)
SaveFail ==
    /\ sv_pc = "writing"
    /\ state_file.n < SaveChunks
    /\ sv_pc' = "failed"
    /\ UNCHANGED <<state_file, out_file, raw_fs, state, last_in, last_act, last_result, rebuilt,
                   sv_new, sv_old, cache_vars, render_vars>>

\* save returns Ok
SaveDone ==
    /\ sv_pc = "writing"
    /\ state_file.n = SaveChunks
    /\ sv_pc' = "idle"
    /\ UNCHANGED <<state_file, out_file, raw_fs, state, last_in, last_act, last_result, rebuilt,
                   sv_new, sv_old, cache_vars, render_vars>>

SaveInit ==
    /\ SkeleInit
    /\ CacheIdle
    /\ RenderIdle
    /\ sv_pc = "idle"
    /\ sv_new = DefaultState
    /\ sv_old = AbsentFile

SaveNext ==
    \/ \E st \in SaveStates : SaveOpen(st)
    \/ SaveWrite
    \/ SaveFail
    \/ SaveDone

SaveSpec == SaveInit /\ [][SaveNext]_vars

---------------------------------------------------------------------------
(* CacheSpec: save_cached and load_cached of one cache key, step by step,  *)
(* run by two writer processes and one reader over the same cache          *)
(* directory.  Every writer encodes the same crate, CacheChunks chunks.    *)

skele_all == <<state_file, out_file, raw_fs, state, last_in, last_act, last_result, rebuilt,
               save_vars, render_vars>>

\* an inode no file name and no open descriptor refers to
FreeInodes ==
    {i \in Inodes : /\ \A f \in CacheFiles : c_dir[f] # i
                    /\ \A w \in Writers : w_fd[w] # i}

\* the encoding of the crate, whole
WholeEntry == 1..CacheChunks

\* fs::write(&temp_path), File::create: the temp file of the key, `<hash>.tmp`,
\* is created, or emptied when it is there
WriterOpen(w) ==
    /\ w_pc[w] = "idle"
    /\ IF c_dir["tmp"] # 0
       THEN /\ w_fd' = [w_fd EXCEPT ![w] = c_dir["tmp"]]
            /\ c_ino' = [c_ino EXCEPT ![c_dir["tmp"]] = {}]
            /\ c_dir' = c_dir
       ELSE LET i == CHOOSE j \in FreeInodes : \A k \in FreeInodes : j <= k IN
            /\ w_fd' = [w_fd EXCEPT ![w] = i]
            /\ c_ino' = [c_ino EXCEPT ![i] = {}]
            /\ c_dir' = [c_dir EXCEPT !["tmp"] = i]
    /\ w_off' = [w_off EXCEPT ![w] = 0]
    /\ w_pc' = [w_pc EXCEPT ![w] = "writing"]
    /\ UNCHANGED <<skele_all, r_pc, r_data, r_seen>>

\* fs::write(&temp_path), write_all: the next chunk goes into the open file at
\* this writer's offset
WriterWrite(w) ==
    /\ w_pc[w] = "writing"
    /\ w_off[w] < CacheChunks
    /\ c_ino' = [c_ino EXCEPT ![w_fd[w]] = @ \cup {w_off[w] + 1}]
    /\ w_off' = [w_off EXCEPT ![w] = @ + 1]
    /\ UNCHANGED <<skele_all, c_dir, w_pc, w_fd, r_pc, r_data, r_seen>>

\* fs::write(&temp_path) returns: this writer has written all its chunks
WriterClose(w) ==
    /\ w_pc[w] = "writing"
    /\ w_off[w] = CacheChunks
    /\ w_fd' = [w_fd EXCEPT ![w] = 0]
    /\ w_off' = [w_off EXCEPT ![w] = 0]
    /\ w_pc' = [w_pc EXCEPT ![w] = "written"]
    /\ UNCHANGED <<skele_all, c_dir, c_ino, r_pc, r_data, r_seen>>

\* fs::rename(&temp_path, &cache_path): an error when the temp file is gone
WriterRename(w) ==
    /\ w_pc[w] = "written"
    /\ c_dir' = IF c_dir["tmp"] = 0 THEN c_dir
                ELSE [c_dir EXCEPT !["cache"] = c_dir["tmp"], !["tmp"] = 0]
    /\ w_pc' = [w_pc EXCEPT ![w] = "idle"]
    /\ UNCHANGED <<skele_all, c_ino, w_fd, w_off, r_pc, r_data, r_seen>>

\* load_cached, cache_path.exists(): no file is a miss
ReaderExists ==
    /\ r_pc = "idle"
    /\ IF c_dir["cache"] = 0
       THEN r_seen' = "miss" /\ r_pc' = "idle"
       ELSE r_seen' = r_seen /\ r_pc' = "reading"
    /\ UNCHANGED <<skele_all, c_dir, c_ino, w_pc, w_fd, w_off, r_data>>

\* load_cached, fs::read(&cache_path): the bytes the file holds now
ReaderRead ==
    /\ r_pc = "reading"
    /\ IF c_dir["cache"] = 0
       THEN r_seen' = "read_error" /\ r_pc' = "idle" /\ r_data' = r_data
       ELSE r_seen' = r_seen /\ r_pc' = "decoding" /\ r_data' = c_ino[c_dir["cache"]]
    /\ UNCHANGED <<skele_all, c_dir, c_ino, w_pc, w_fd, w_off>>

\* load_cached that leaves the file it could not decode
ReaderDecode_KeepsEntry ==
    /\ r_pc = "decoding"
    /\ r_seen' = IF r_data = WholeEntry THEN "hit" ELSE "partial"
    /\ c_dir' = c_dir
    /\ r_pc' = "idle"
    /\ r_data' = {}
    /\ UNCHANGED <<skele_all, c_ino, w_pc, w_fd, w_off>>

\* load_cached, decode_from_slice: an encoding with chunks missing fails to
\* decode, the cache file is removed and the load is an error
ReaderDecode ==
    /\ r_pc = "decoding"
    /\ IF r_data = WholeEntry
       THEN r_seen' = "hit" /\ c_dir' = c_dir
       ELSE r_seen' = "partial" /\ c_dir' = [c_dir EXCEPT !["cache"] = 0]
    /\ r_pc' = "idle"
    /\ r_data' = {}
    /\ UNCHANGED <<skele_all, c_ino, w_pc, w_fd, w_off>>

\* read_crate: only Ok(Some(crate)) from load_cached is used; after a miss
\* or an error the documentation is generated
ReadCrate(seen) == IF seen = "hit" THEN "cached" ELSE "generated"

CacheInit == SkeleInit /\ SaveIdle /\ CacheIdle /\ RenderIdle

CacheNext ==
    \/ \E w \in Writers : WriterOpen(w)
    \/ \E w \in Writers : WriterWrite(w)
    \/ \E w \in Writers : WriterClose(w)
    \/ \E w \in Writers : WriterRename(w)
    \/ ReaderExists
    \/ ReaderRead
    \/ ReaderDecode

CacheSpec == CacheInit /\ [][CacheNext]_vars

---------------------------------------------------------------------------
(* Rendered text.  A text is a sequence of lines; a line is its            *)
(* indentation (in levels), what follows the indentation, and, for a line  *)
(* that declares or opens an item, the item.  A blank line has nothing     *)
(* after its indentation.                                                  *)

GAP_MARKER == "// ..."

Line(ind, txt, item) == [ind |-> ind, txt |-> txt, item |-> item]

\* line.trim_start() == GAP_MARKER
IsGap(line) == line.txt = GAP_MARKER

\* line.trim().is_empty()
IsBlank(line) == line.txt = ""

RECURSIVE DedupFrom(_, _, _, _, _)
\* the loop of dedup_gap_markers, from line k on
DedupFrom(lines, k, in_gap_block, emitted_blank_after_gap, deduped) ==
    IF k > Len(lines) THEN deduped
    ELSE LET line == lines[k]
         IN IF IsGap(line)
            THEN IF in_gap_block
                 THEN DedupFrom(lines, k + 1, TRUE, emitted_blank_after_gap, deduped)
                 ELSE DedupFrom(lines, k + 1, TRUE, FALSE, Append(deduped, line))
            ELSE IF in_gap_block /\ IsBlank(line)
                 THEN IF emitted_blank_after_gap
                      THEN DedupFrom(lines, k + 1, TRUE, TRUE, deduped)
                      ELSE DedupFrom(lines, k + 1, TRUE, TRUE, Append(deduped, line))
                 ELSE DedupFrom(lines, k + 1, FALSE, emitted_blank_after_gap,
                                Append(deduped, line))

RECURSIVE AdjacentOnlyFrom(_, _, _)
\* collapses only the markers that directly follow a marker
AdjacentOnlyFrom(lines, k, deduped) ==
    IF k > Len(lines) THEN deduped
    ELSE IF IsGap(lines[k]) /\ deduped # <<>> /\ IsGap(deduped[Len(deduped)])
         THEN AdjacentOnlyFrom(lines, k + 1, deduped)
         ELSE AdjacentOnlyFrom(lines, k + 1, Append(deduped, lines[k]))

DedupGapMarkers_AdjacentOnly(output) == AdjacentOnlyFrom(output, 1, <<>>)

DedupGapMarkers(output) == DedupFrom(output, 1, FALSE, FALSE, <<>>)

---------------------------------------------------------------------------
(* PostSpec: Renderer::render_rust hands the formatter's text, or the raw  *)
(* text when formatting fails, to apply_postprocessors.                    *)

\* the lines a text is made of: blank lines, gap markers and code, at the
\* top level or one level in
TextLines == {Line(i, t, "") : i \in 0..1, t \in {"", GAP_MARKER, "pub fn f() {}"}}

Texts == UNION {[1..n -> TextLines] : n \in 0..MaxLines}

ApplyPostprocessors ==
    /\ pp_out = NoRender
    /\ pp_out' = [kind |-> "text", lines |-> DedupGapMarkers(pp_in)]
    /\ UNCHANGED <<skele_vars, save_vars, cache_vars, rn_in, rn_res, pp_in, rn_prev>>

PostInit ==
    /\ SkeleInit /\ SaveIdle /\ CacheIdle
    /\ rn_in = NoRender
    /\ rn_res = NoRender
    /\ pp_in \in Texts
    /\ pp_out = NoRender
    /\ rn_prev = NoRender

PostNext == ApplyPostprocessors

PostSpec == PostInit /\ [][PostNext]_vars

---------------------------------------------------------------------------
(* The renderer (src/src/render): one render pass of a crate under a       *)
(* selection.  The crate is a root module whose children are drawn from    *)
(* RootItemPool; every item is public.  A path is the sequence of its      *)
(* segments: "inner::target" is <<"inner", "target">>, and the empty       *)
(* filter is <<>>.                                                         *)

Item(kind, items, is_glob, id) ==
    [kind |-> kind, items |-> items, is_glob |-> is_glob, id |-> id, public |-> TRUE]

\* pub mod inner { pub fn target() {} pub fn other() {} pub fn extra() {} }
\* pub mod empty {}
\* pub fn helper() {}
\* pub use inner::*;  pub use empty::*;  pub use self::inner as again;
Index(id) ==
    CASE id = "root" -> Item("module", rn_in.items, FALSE, "")
      [] id = "inner" -> Item("module", <<"target", "other", "extra">>, FALSE, "")
      [] id = "empty" -> Item("module", <<>>, FALSE, "")
      [] id \in {"target", "other", "extra", "helper"} -> Item("function", <<>>, FALSE, "")
      [] id = "glob_inner" -> Item("use", <<>>, TRUE, "inner")
      [] id = "glob_empty" -> Item("use", <<>>, TRUE, "empty")
      [] id = "use_inner" -> Item("use", <<>>, FALSE, "inner")

NoName == "<none>"

\* item.name: a glob `use` has none
ItemName(id) ==
    CASE id \in {"glob_inner", "glob_empty"} -> NoName
      [] id = "use_inner" -> "again"
      [] OTHER -> id

RootItemPool == {"inner", "empty", "helper", "glob_inner", "glob_empty", "use_inner"}

NoFile == "<no file>"

\* item.span.filename
ItemFile(id) == rn_in.files[id]

\* RenderState::new, and the history of the pass: one event per child a
\* module or a `use` went through, and the item paths held against the filter
NewRenderState ==
    [visited |-> {}, gap_state |-> "Clear", filter_matched |-> FALSE,
     current_file |-> NoFile, log |-> <<>>, checked |-> {}]

Event(scope, via, child, reached, seen, rendered, marker, pending, block) ==
    [scope |-> scope, via |-> via, child |-> child, reached |-> reached, seen |-> seen,
     rendered |-> rendered, marker |-> marker, pending |-> pending, block |-> block]

Logged(st, event) == [st EXCEPT !.log = Append(st.log, event)]

IsVisible(id) == rn_in.render_private_items \/ Index(id).public

SelectionContextContains(id) ==
    IF rn_in.selection.active THEN id \in rn_in.selection.context ELSE TRUE

SelectionMatches(id) ==
    IF rn_in.selection.active THEN id \in rn_in.selection.matches ELSE FALSE

SelectionExpands(id) ==
    IF rn_in.selection.active THEN id \in rn_in.selection.expanded ELSE TRUE

SelectionAllowsChild(parent_id, child_id) ==
    IF ~rn_in.selection.active THEN TRUE
    ELSE SelectionExpands(parent_id) \/ SelectionContextContains(child_id)

MarkSkipped(st) ==
    IF rn_in.selection.active THEN [st EXCEPT !.gap_state = "Pending"] ELSE st

ShouldEmitGap(st) == rn_in.selection.active /\ st.gap_state = "Pending"

ClearPendingGap(st) == [st EXCEPT !.gap_state = "Clear"]

\* ppush
PPush(path_prefix, name) == Append(path_prefix, name)

\* compares the filter with the whole item path, the crate's name included
FilterMatch_KeepsCrate(path_prefix, id) ==
    IF ItemName(id) = NoName THEN "Prefix"
    ELSE LET filter_components == rn_in.filter
             item_components == PPush(path_prefix, ItemName(id))
         IN IF filter_components = item_components THEN "Hit"
            ELSE IF IsPrefix(item_components, filter_components) THEN "Prefix"
            ELSE IF IsPrefix(filter_components, item_components) THEN "Suffix"
            ELSE "Miss"

\* RenderState::filter_match; the first segment of an item's path is the crate
FilterMatch(path_prefix, id) ==
    IF ItemName(id) = NoName THEN "Prefix"
    ELSE LET filter_components == rn_in.filter
             item_components == Tail(PPush(path_prefix, ItemName(id)))
         IN IF filter_components = item_components THEN "Hit"
            ELSE IF IsPrefix(item_components, filter_components) THEN "Prefix"
            ELSE IF IsPrefix(filter_components, item_components) THEN "Suffix"
            ELSE "Miss"

\* RenderState::should_filter: whether the item is filtered out, and the state
\* with filter_matched set on a hit
ShouldFilter(st, path_prefix, id) ==
    IF id = "root" \/ rn_in.filter = <<>> THEN [st |-> st, filtered |-> FALSE]
    ELSE LET m == FilterMatch(path_prefix, id)
             seen == [st EXCEPT !.checked =
                         IF ItemName(id) = NoName THEN st.checked
                         ELSE st.checked \cup {Tail(PPush(path_prefix, ItemName(id)))}]
         IN [st |-> IF m = "Hit" THEN [seen EXCEPT !.filter_matched = TRUE] ELSE seen,
             filtered |-> m = "Miss"]

\* the first line that is not blank is a marker
StartsWithGap(output) ==
    \E k \in 1..Len(output) :
        /\ IsGap(output[k])
        /\ \A j \in 1..(k - 1) : IsBlank(output[j])

RECURSIVE TrimEndNewlines(_)
\* output.trim_end_matches('\n'): the empty lines at the end go
TrimEndNewlines(output) ==
    IF output # <<>> /\ output[Len(output)].txt = "" /\ output[Len(output)].ind = 0
    THEN TrimEndNewlines(SubSeq(output, 1, Len(output) - 1))
    ELSE output

EndsWithGap(output) ==
    LET trimmed == TrimEndNewlines(output)
    IN trimmed # <<>> /\ IsGap(trimmed[Len(trimmed)])

\* RenderState::emit_gap_if_needed; marker tells whether a line was pushed
EmitGapIfNeeded(st, output, indent, next_block) ==
    IF ~ShouldEmitGap(st) THEN [st |-> st, output |-> output, marker |-> FALSE]
    ELSE LET push == ~EndsWithGap(output) /\ ~StartsWithGap(next_block)
         IN [st |-> ClearPendingGap(st),
             output |-> IF push THEN Append(output, Line(indent, GAP_MARKER, ""))
                        ELSE output,
             marker |-> push]

\* whether the selection asks for the item's full source
SelectionIsFullSource(id) ==
    rn_in.selection.active /\ id \in rn_in.selection.full_source

\* extract_source: the lines of the item's span, or, when the file cannot be
\* read, an Ok value holding the error comment
ExtractSource(id) ==
    IF ItemFile(id) \in rn_in.unreadable
    THEN <<Line(0, "// ripdoc:error:", ItemFile(id))>>
    ELSE IF Index(id).kind = "module" THEN <<Line(0, "pub mod { body }", id)>>
    ELSE <<Line(0, "pub fn { body }", id)>>

IsCommentLine(line) ==
    line.txt \in {GAP_MARKER, "// ripdoc:error:", "// ripdoc:source:"}

\* extracted_source_looks_like_item: the first line that is neither blank
\* nor a comment holds "fn " for a function, "mod " for a module
ExtractedSourceLooksLikeItem(id, source) ==
    \E k \in 1..Len(source) :
        /\ ~IsBlank(source[k]) /\ ~IsCommentLine(source[k])
        /\ \A j \in 1..(k - 1) : IsBlank(source[j]) \/ IsCommentLine(source[j])
        /\ source[k].txt \in IF Index(id).kind = "module"
                            THEN {"pub mod {", "pub mod { body }"}
                            ELSE {"pub fn", "pub fn { body }"}

\* render_function_item: the full source, or "pub fn name() {}\n\n"
RenderFunctionItem(id) ==
    IF SelectionIsFullSource(id) /\ ExtractedSourceLooksLikeItem(id, ExtractSource(id))
    THEN ExtractSource(id) \o <<Line(0, "", "")>>
    ELSE <<Line(0, "pub fn", id), Line(0, "", "")>>

\* render_item: the source label before an item of another file
LabelSource(st, id, output) ==
    IF /\ output # <<>>
       /\ rn_in.render_source_labels
       /\ Index(id).kind # "use"
       /\ ~(Index(id).kind = "module" /\ rn_in.plain)
       /\ st.current_file # ItemFile(id)
    THEN [st |-> [st EXCEPT !.current_file = ItemFile(id)],
          out |-> <<Line(0, "// ripdoc:source:", ItemFile(id)), Line(0, "", "")>> \o output]
    ELSE [st |-> st, out |-> output]

Visit(st, id) == [st EXCEPT !.visited = st.visited \cup {id}]

AlreadyVisited_Never(st, id) == FALSE

\* render_item's first check on the visited set
AlreadyVisited(st, id) ==
    Index(id).kind \notin {"module", "impl"} /\ id \in st.visited

UseItemSkipped_Always(st, any_rendered) == MarkSkipped(st)

\* render_use: an expanded item that rendered nothing
UseItemSkipped(st, any_rendered) ==
    IF ~any_rendered THEN MarkSkipped(st) ELSE st

RECURSIVE RenderItem(_, _, _, _)

RECURSIVE RenderModuleItems(_, _, _, _, _, _, _)
\* render_module: the loop over module.items, from child k on
RenderModuleItems(st, path_prefix, id, items, k, output, indent) ==
    IF k > Len(items) THEN [st |-> st, out |-> output]
    ELSE LET child == items[k]
             seen == child \in st.visited
         IN IF ~SelectionAllowsChild(id, child)
            THEN RenderModuleItems(
                     Logged(MarkSkipped(st),
                            Event(id, "module", child, FALSE, seen, FALSE, FALSE, TRUE, <<>>)),
                     path_prefix, id, items, k + 1, output, indent)
            ELSE LET r == RenderItem(st, path_prefix, child, FALSE)
                     g == EmitGapIfNeeded(r.st, output, indent, r.out)
                 IN IF r.out # <<>>
                    THEN RenderModuleItems(
                             Logged(g.st,
                                    Event(id, "module", child, TRUE, seen, TRUE, g.marker,
                                          ShouldEmitGap(r.st), r.out)),
                             path_prefix, id, items, k + 1, g.output \o r.out, indent)
                    ELSE RenderModuleItems(
                             Logged(MarkSkipped(r.st),
                                    Event(id, "module", child, TRUE, seen, FALSE, FALSE,
                                          TRUE, <<>>)),
                             path_prefix, id, items, k + 1, output, indent)

RenderModule(st, path_prefix, id) ==
    LET is_plain == rn_in.plain
        head == IF is_plain THEN <<>> ELSE <<Line(0, "pub mod {", id)>>
        r == RenderModuleItems(st, PPush(path_prefix, ItemName(id)), id, Index(id).items,
                               1, head, IF is_plain THEN 0 ELSE 1)
    IN IF SelectionIsFullSource(id)
       THEN [st |-> st, out |-> ExtractSource(id) \o <<Line(0, "", "")>>]
       ELSE [st |-> r.st,
             out |-> IF is_plain THEN r.out
                     ELSE r.out \o <<Line(0, "}", ""), Line(0, "", "")>>]

\* resolve_use: the items a `use` stands for
ResolveUse(id) ==
    IF Index(id).is_glob
    THEN SelectSeq(Index(Index(id).id).items, IsVisible)
    ELSE <<Index(id).id>>

RECURSIVE RenderUseItems(_, _, _, _, _, _, _)
\* render_use: the loop over the expanded items, from item k on
RenderUseItems(st, path_prefix, id, items, k, output, any_rendered) ==
    IF k > Len(items) THEN [st |-> st, out |-> output]
    ELSE LET child == items[k]
             seen == child \in st.visited
             r == RenderItem(st, path_prefix, child, TRUE)
             g == EmitGapIfNeeded(r.st, output, 0, r.out)
         IN IF r.out # <<>>
            THEN RenderUseItems(
                     Logged(g.st, Event(id, "use", child, TRUE, seen, TRUE, g.marker,
                                        ShouldEmitGap(r.st), r.out)),
                     path_prefix, id, items, k + 1, g.output \o r.out, TRUE)
            ELSE RenderUseItems(
                     Logged(UseItemSkipped(r.st, any_rendered),
                            Event(id, "use", child, TRUE, seen, FALSE, FALSE,
                                  ShouldEmitGap(UseItemSkipped(r.st, any_rendered)), <<>>)),
                     path_prefix, id, items, k + 1, output, any_rendered)

RenderUse(st, path_prefix, id) ==
    LET r == RenderUseItems(st, path_prefix, id, ResolveUse(id), 1, <<>>, FALSE)
    IN [st |-> ClearPendingGap(r.st), out |-> r.out]

RenderItem(st, path_prefix, id, force_private) ==
    IF ~force_private /\ ~IsVisible(id) THEN [st |-> st, out |-> <<>>]
    ELSE IF AlreadyVisited(st, id) THEN [st |-> st, out |-> <<>>]
    ELSE IF Index(id).kind = "module" /\ id \in st.visited THEN [st |-> st, out |-> <<>>]
    ELSE LET st1 == IF Index(id).kind = "module" THEN Visit(st, id) ELSE st
             f == ShouldFilter(st1, path_prefix, id)
         IN IF ~SelectionContextContains(id) THEN [st |-> st1, out |-> <<>>]
            ELSE IF f.filtered THEN [st |-> f.st, out |-> <<>>]
            ELSE IF /\ SelectionIsFullSource(id)
                    /\ ExtractedSourceLooksLikeItem(id, ExtractSource(id))
            THEN [st |-> Visit(f.st, id), out |-> ExtractSource(id) \o <<Line(0, "", "")>>]
            ELSE LET r == IF Index(id).kind = "module" THEN RenderModule(f.st, path_prefix, id)
                          ELSE IF Index(id).kind = "use" THEN RenderUse(f.st, path_prefix, id)
                          ELSE [st |-> f.st, out |-> RenderFunctionItem(id)]
                 IN LabelSource(IF r.out # <<>> THEN Visit(r.st, id) ELSE r.st, id, r.out)

---------------------------------------------------------------------------
(* RenderSpec: RenderState::render of every crate and selection of the     *)
(* bounds                                                                  *)

RootItemLists ==
    {s \in UNION {[1..n -> RootItemPool] : n \in 0..MaxRootItems} :
        \A j, k \in 1..Len(s) : j # k => s[j] # s[k]}

\* the items below an item of the root
Below(id) ==
    IF id \in {"inner", "glob_inner", "use_inner"} THEN {"target", "other", "extra"}
    ELSE {}

ItemsOf(items) ==
    UNION {{items[k]} \cup Below(items[k]) : k \in 1..Len(items)}
        \cup (IF \E k \in 1..Len(items) : items[k] = "use_inner" THEN {"inner"} ELSE {})

NoSelection ==
    [active |-> FALSE, matches |-> {}, context |-> {}, expanded |-> {}, full_source |-> {}]

\* RenderSelection::new: the matches and the full-source items join the context
RenderSelection(matches, context, expanded, full_source) ==
    [active |-> TRUE, matches |-> matches,
     context |-> context \cup matches \cup full_source,
     expanded |-> expanded, full_source |-> full_source]

ItemIds ==
    {"root", "inner", "empty", "target", "other", "extra", "helper", "glob_inner",
     "glob_empty", "use_inner"}


\* Renderer::with_selection: the context always holds the root
Selections(items) ==
    {NoSelection} \cup
    {RenderSelection({}, {"root"} \cup c, e, {}) :
        c \in SUBSET ItemsOf(items), e \in SUBSET ({"inner"} \cap ItemsOf(items))}

RenderInput(items, sel, plain) ==
    [kind |-> "render", items |-> items, selection |-> sel, plain |-> plain,
     render_private_items |-> FALSE, filter |-> <<>>, render_source_labels |-> FALSE,
     initial_current_file |-> NoFile, files |-> [id \in ItemIds |-> "lib.rs"],
     unreadable |-> {}]

\* RenderState::render
Render ==
    /\ rn_res = NoRender
    /\ LET r == RenderItem(NewRenderState, <<>>, "root", FALSE)
           ok == rn_in.filter = <<>> \/ r.st.filter_matched
       IN rn_res' = [kind |-> "rendered",
                     result |-> IF ok THEN "ok" ELSE "FilterNotMatched",
                     out |-> IF ok THEN r.out ELSE <<>>,
                     visited |-> r.st.visited, gap_state |-> r.st.gap_state,
                     filter_matched |-> r.st.filter_matched,
                     current_file |-> r.st.current_file, log |-> r.st.log,
                     checked |-> r.st.checked]
    /\ UNCHANGED <<skele_vars, save_vars, cache_vars, rn_in, pp_in, pp_out, rn_prev>>

RenderInit ==
    /\ SkeleInit /\ SaveIdle /\ CacheIdle
    /\ \E items \in RootItemLists : \E sel \in Selections(items) : \E plain \in BOOLEAN :
          rn_in = RenderInput(items, sel, plain)
    /\ rn_res = NoRender
    /\ pp_in = <<>>
    /\ pp_out = NoRender
    /\ rn_prev = NoRender

RenderNext == Render

RenderSpec == RenderInit /\ [][RenderNext]_vars

---------------------------------------------------------------------------
(* FilterSpec: RenderState::render with a path filter                      *)

Filters ==
    {<<"inner">>, <<"inner", "target">>, <<"target">>, <<"helper">>, <<"again">>,
     <<"inner", "missing">>, <<"missing">>}

\* no selection, a selection of everything, and one that leaves target out
FilterSelections(items) ==
    {NoSelection,
     RenderSelection({}, {"root"} \cup ItemsOf(items), {}, {}),
     RenderSelection({}, ({"root"} \cup ItemsOf(items)) \ {"target"}, {}, {})}

FilterInit ==
    /\ SkeleInit /\ SaveIdle /\ CacheIdle
    /\ \E items \in RootItemLists : \E sel \in FilterSelections(items) :
       \E plain \in BOOLEAN : \E filter \in Filters :
          rn_in = [RenderInput(items, sel, plain) EXCEPT !.filter = filter]
    /\ rn_res = NoRender
    /\ pp_in = <<>>
    /\ pp_out = NoRender
    /\ rn_prev = NoRender

FilterNext == Render

FilterSpec == FilterInit /\ [][FilterNext]_vars

---------------------------------------------------------------------------
(* SelectSpec: a crate rendered with no selection, then rendered again by  *)
(* a renderer that was given a selection                                   *)

\* the selection in which everything is matched and every container expands
Everything(items) ==
    RenderSelection({"root"} \cup ItemsOf(items), {"root"} \cup ItemsOf(items),
                    {id \in {"root"} \cup ItemsOf(items) : Index(id).kind = "module"}, {})

\* RenderSelection::all
SelectionAll ==
    [active |-> TRUE, matches |-> {}, context |-> {}, expanded |-> {}, full_source |-> {}]

\* Renderer::with_selection, on a renderer for the crate just rendered
WithSelection(sel) ==
    /\ rn_res.kind = "rendered"
    /\ rn_prev = NoRender
    /\ rn_in' = [rn_in EXCEPT !.selection = sel]
    /\ rn_prev' = rn_res
    /\ rn_res' = NoRender
    /\ UNCHANGED <<skele_vars, save_vars, cache_vars, pp_in, pp_out>>

SelectInit ==
    /\ SkeleInit /\ SaveIdle /\ CacheIdle
    /\ \E items \in RootItemLists : \E plain \in BOOLEAN :
          rn_in = RenderInput(items, NoSelection, plain)
    /\ rn_res = NoRender
    /\ pp_in = <<>>
    /\ pp_out = NoRender
    /\ rn_prev = NoRender

SelectNext ==
    \/ Render
    \/ WithSelection(Everything(rn_in.items))
    \/ WithSelection(SelectionAll)

SelectSpec == SelectInit /\ [][SelectNext]_vars

---------------------------------------------------------------------------
(* LabelSpec: RenderState::render of a crate whose items come from two     *)
(* files, with and without source labels                                   *)

SourceFiles == {"lib.rs", "inner.rs"}

LabelItemLists ==
    {s \in RootItemLists : \A k \in 1..Len(s) : s[k] \in {"helper", "inner", "empty"}}

\* Renderer::with_source_labels, Renderer::with_current_file
LabelInput(items, plain, files, labels, initial) ==
    [RenderInput(items, NoSelection, plain) EXCEPT
        !.files = files, !.render_source_labels = labels,
        !.initial_current_file = initial]

LabelInit ==
    /\ SkeleInit /\ SaveIdle /\ CacheIdle
    /\ \E items \in LabelItemLists : \E plain, labels \in BOOLEAN :
       \E f \in [{"helper", "inner", "target", "other"} -> SourceFiles] :
       \E initial \in SourceFiles \cup {NoFile} :
          rn_in = LabelInput(items, plain,
                             [id \in ItemIds |-> IF id \in DOMAIN f THEN f[id] ELSE "lib.rs"],
                             labels, initial)
    /\ rn_res = NoRender
    /\ pp_in = <<>>
    /\ pp_out = NoRender
    /\ rn_prev = NoRender

LabelNext == Render

LabelSpec == LabelInit /\ [][LabelNext]_vars

---------------------------------------------------------------------------
(* SourceSpec: RenderState::render under a selection that asks for the     *)
(* full source of some items, with source files that can and cannot be     *)
(* read                                                                    *)

FullSourcePool == {"helper", "inner", "target"}

SourceInit ==
    /\ SkeleInit /\ SaveIdle /\ CacheIdle
    /\ \E items \in LabelItemLists : \E plain \in BOOLEAN :
       \E full_source \in SUBSET (FullSourcePool \cap ItemsOf(items)) :
       \E f \in [{"helper", "target"} -> SourceFiles] :
       \E unreadable \in SUBSET SourceFiles :
          rn_in = [RenderInput(items,
                               RenderSelection({}, {"root"} \cup ItemsOf(items), {},
                                               full_source),
                               plain)
                   EXCEPT !.files = [id \in ItemIds |->
                                        IF id \in DOMAIN f THEN f[id] ELSE "lib.rs"],
                          !.unreadable = unreadable]
    /\ rn_res = NoRender
    /\ pp_in = <<>>
    /\ pp_out = NoRender
    /\ rn_prev = NoRender

SourceNext == Render

SourceSpec == SourceInit /\ [][SourceNext]_vars

---------------------------------------------------------------------------
(* MatchSpec: a session of Add and Update invocations in which the Update  *)
(* specs are all short strings over the segments of the stored targets.    *)
(* A segment is one token or several: in TMTy the last segment is "T" "y". *)

TMTy == <<"/w/a", "::", "m", "::", "T", "y">>

SpecTokens == {"m", "::", "T", "y", "X"}

MaxSpecLen == 3

UpdateSpecs ==
    UNION {[1..n -> SpecTokens] : n \in 1..MaxSpecLen} \cup {TMX, TMTy, ItemOf(TMTy)}

MatchNext ==
    \/ \E t \in {TMX, TMTy} : Add(t, FALSE, FALSE, FALSE, NoPath, FALSE)
    \/ \E sp \in UpdateSpecs : Update(sp, "true", "keep", NoPath, FALSE)

MatchSpec == Init /\ [][MatchNext]_vars

---------------------------------------------------------------------------
(* BuilderSpec: build_render_selection over the index of a crate           *)
(*   root { fn helper, mod inner { fn target, impl block } }               *)
(* The search index has an entry for every item but the impl block.        *)

CrateItems == {"root", "inner", "target", "helper", "impl"}

\* the parent chain of an item in the crate data, from the crate root down to
\* the item's parent
ParentChain(id) ==
    IF id \in {"target", "impl"} THEN <<"root", "inner">>
    ELSE IF id \in {"inner", "helper"} THEN <<"root">>
    ELSE <<>>

SearchItemKind(id) ==
    IF id = "root" THEN "Crate"
    ELSE IF id = "inner" THEN "Module"
    ELSE "Function"

\* IndexEntry / SearchResult
IndexEntry(id) == [item_id |-> id, kind |-> SearchItemKind(id), ancestors |-> ParentChain(id)]

\* SearchIndex::entries
IndexEntries == {IndexEntry(id) : id \in CrateItems \ {"impl"}}

\* SearchIndex::get
IndexHas(id) == \E e \in IndexEntries : e.item_id = id

Range(s) == {s[k] : k \in 1..Len(s)}

\* Iterator::position: the first index (from 1) of an ancestor in the set, 0
\* when there is none
Position(ancestors, containers) ==
    IF \E k \in 1..Len(ancestors) : ancestors[k] \in containers
    THEN CHOOSE k \in 1..Len(ancestors) :
            ancestors[k] \in containers /\ \A j \in 1..(k - 1) : ancestors[j] \notin containers
    ELSE 0

\* build_render_selection.  The results are index entries, none of them an
\* impl block, so the branch that adds the target type of a matched impl
\* block adds nothing.
BuildRenderSelection(results, expand_containers, full_source) ==
    LET matches == {r.item_id : r \in results} \cup full_source
        from_results == {r.item_id : r \in results} \cup UNION {Range(r.ancestors) : r \in results}
        from_full == full_source
                       \cup UNION {Range(IndexEntry(id).ancestors) :
                                      id \in {i \in full_source : IndexHas(i)}}
        containers == {r.item_id : r \in {q \in results :
                                            q.kind \in {"Crate", "Module", "Struct", "Trait"}}}
        below == {e \in IndexEntries : Position(e.ancestors, containers) # 0}
        descendant_containers ==
            UNION {{e.ancestors[k] :
                      k \in (Position(e.ancestors, containers) + 1)..Len(e.ancestors)} :
                   e \in below}
        expanding == expand_containers /\ containers # {}
    IN RenderSelection(
           matches,
           from_results \cup from_full
             \cup (IF expanding THEN {e.item_id : e \in below} \cup descendant_containers
                   ELSE {}),
           IF expanding THEN containers \cup descendant_containers ELSE {},
           full_source)

\* the selection builder runs on a result set and a full-source set
Select ==
    /\ rn_in.kind = "select"
    /\ rn_res = NoRender
    /\ rn_res' = [kind |-> "selection",
                  selection |-> BuildRenderSelection(rn_in.results, rn_in.expand_containers,
                                                     rn_in.full_source)]
    /\ UNCHANGED <<skele_vars, save_vars, cache_vars, rn_in, pp_in, pp_out, rn_prev>>

BuilderInit ==
    /\ SkeleInit /\ SaveIdle /\ CacheIdle
    /\ \E results \in SUBSET IndexEntries : \E expand_containers \in BOOLEAN :
       \E full_source \in SUBSET {"target", "helper", "impl"} :
          rn_in = [kind |-> "select", results |-> results,
                   expand_containers |-> expand_containers, full_source |-> full_source]
    /\ rn_res = NoRender
    /\ pp_in = <<>>
    /\ pp_out = NoRender
    /\ rn_prev = NoRender

BuilderNext == Select

BuilderSpec == BuilderInit /\ [][BuilderNext]_vars

---------------------------------------------------------------------------
(* Properties of the rebuild (BuildSpec) *)

\* the last invocation ran state.rebuild(..) with an output path that can be
\* written, and no file has changed since
JustRebuilt == rebuilt /\ last_act # "FsChange" /\ Writable(OutputPathOf(state))

TargetFails(e) ==
    \/ ~ResolveTarget(e.path).ok
    \/ \E k \in 1..Len(ResolveTarget(e.path).roots) :
          ~ReadCrateOk(ResolveTarget(e.path).roots[k])

\* the entry cannot be rendered: a Target that fails to resolve or load, a
\* RawSource whose file is unreadable or whose line range is invalid
EntryFails(e, fs) ==
    IF e.type = "target" THEN TargetFails(e)
    ELSE IF e.type = "raw_source" THEN ~RenderRawSource(e, fs).ok
    ELSE FALSE

AnyEntryFailed(st, fs) ==
    \E i \in 1..Len(st.entries) : EntryFails(st.entries[i], fs)

RECURSIVE EntriesThatRender(_, _, _)
EntriesThatRender(entries, fs, i) ==
    IF i > Len(entries) THEN <<>>
    ELSE (IF EntryFails(entries[i], fs) THEN <<>> ELSE <<entries[i]>>)
           \o EntriesThatRender(entries, fs, i + 1)

\* C1: an entry that fails during a rebuild is reported without aborting the
\* rebuild: the output file is written and holds the render of every other
\* entry.
C1_EntryErrorsDoNotAbort ==
    (JustRebuilt /\ AnyEntryFailed(state, raw_fs)) =>
        \E b \in BuildOutput([state EXCEPT !.entries =
                                 EntriesThatRender(state.entries, raw_fs, 1)], raw_fs) :
            /\ b.ok
            /\ out_file = WrittenFile(OutputPathOf(state), b.out)

\* C2: a rebuild in which an entry failed ends in a failure result, a rebuild
\* in which none failed ends in success.
C2_ExitCodeReflectsFailures ==
    JustRebuilt => (last_result = "err" <=> AnyEntryFailed(state, raw_fs))

\* C5: after an action that changes the entry list the state file holds the
\* changed list, also when the rebuild that follows fails.
C5_StateSavedOnEachMutation ==
    last_act \in {"Add", "Inject", "Update", "Remove", "Reset"} =>
        Load(state_file).entries = state.entries

\* C6: a Rebuild that follows a successful rebuild of the same state and the
\* same files writes the same output file.
C6_RebuildIsReproducible ==
    [][(/\ JustRebuilt
        /\ last_result = "ok"
        /\ last_act' = "Rebuild"
        /\ last_result' = "ok"
        /\ state' = state) => out_file' = out_file]_vars

\* the groups the planner makes of the current entry list
Plan == GroupEntries(state.entries).groups

RECURSIVE PlannedEntries(_, _)
PlannedEntries(entries, i) ==
    IF i > Len(entries) THEN <<>>
    ELSE (IF entries[i].type = "target" /\ TargetFails(entries[i]) THEN <<>>
          ELSE <<entries[i]>>) \o PlannedEntries(entries, i + 1)

RECURSIVE Flatten(_, _)
Flatten(groups, i) ==
    IF i > Len(groups) THEN <<>>
    ELSE (IF groups[i].kind = "targets" THEN groups[i].targets
          ELSE IF groups[i].kind = "injection" THEN <<Injection(groups[i].content)>>
          ELSE <<groups[i].raw>>) \o Flatten(groups, i + 1)

\* C7: the planner's groups, read in order, are the entries in entry order,
\* each Injection and each RawSource a group of its own; the targets of a
\* group have the group's package root and no two neighbouring groups are
\* Targets groups of one package root, so a run of consecutive same-root
\* targets is one group; a successful rebuild writes one block per group.
C7_GroupsAreMaximalRuns ==
    /\ Flatten(Plan, 1) = PlannedEntries(state.entries, 1)
    /\ \A i \in 1..Len(Plan) :
          Plan[i].kind = "targets" =>
              /\ Len(Plan[i].targets) > 0
              /\ \A k \in 1..Len(Plan[i].targets) :
                    ResolveTarget(Plan[i].targets[k].path).roots = <<Plan[i].pkg_root>>
    /\ \A i \in 1..(Len(Plan) - 1) :
          ~(/\ Plan[i].kind = "targets"
            /\ Plan[i + 1].kind = "targets"
            /\ Plan[i].pkg_root = Plan[i + 1].pkg_root)
    /\ (JustRebuilt /\ last_result = "ok") => Len(out_file.content) = Len(Plan)

\* two targets of one package then a target of another were rebuilt as two groups
C7_Witness ==
    /\ JustRebuilt
    /\ last_result = "ok"
    /\ Len(state.entries) = 3
    /\ Len(Plan) = 2
    /\ Plan[1].kind = "targets"
    /\ Len(Plan[1].targets) = 2
    /\ Len(out_file.content) = 2

---------------------------------------------------------------------------
(* Properties of the entry list (Spec).  In a step of an invocation the    *)
(* list it loaded is Load(state_file).entries and the list it leaves is    *)
(* state'.entries.                                                         *)

NoDuplicateTargets(entries) ==
    \A i, j \in 1..Len(entries) :
        (i # j /\ entries[i].type = "target" /\ entries[j].type = "target") =>
            NormalizeTargetSpec(entries[i].path) # NormalizeTargetSpec(entries[j].path)

HasNormalizedPath(entries, spec) ==
    \E i \in 1..Len(entries) :
        /\ entries[i].type = "target"
        /\ NormalizeTargetSpec(entries[i].path) = NormalizeTargetSpec(spec)

\* C8: starting from the empty list no invocation leaves two Target entries of
\* one normalized path, in memory or in the state file, and an Add of a path
\* that is present leaves the list as it was.
C8_AddDeduplicates ==
    [][/\ NoDuplicateTargets(state'.entries)
       /\ NoDuplicateTargets(Load(state_file').entries)
       /\ (last_act' = "Add" /\ HasNormalizedPath(Load(state_file).entries, last_in'.spec))
              => state'.entries = Load(state_file).entries]_vars

\* an Add of a path that is in the list, but not at its end, went through
C8_Witness ==
    /\ last_act = "Add"
    /\ last_result = "ok"
    /\ Len(state.entries) >= 2
    /\ HasNormalizedPath(state.entries, last_in.spec)
    /\ ~HasNormalizedPath(<<state.entries[Len(state.entries)]>>, last_in.spec)

\* a is b with some of its elements deleted
RECURSIVE IsSubsequence(_, _)
IsSubsequence(a, b) ==
    IF a = <<>> THEN TRUE
    ELSE IF b = <<>> THEN FALSE
    ELSE IF Head(a) = Head(b) THEN IsSubsequence(Tail(a), Tail(b))
    ELSE IsSubsequence(a, Tail(b))

\* C9: Add and Inject leave the loaded list with at most one entry inserted,
\* Remove leaves it with entries deleted, Update leaves every entry at its
\* position: the entries that remain keep their relative order.
C9_OrderPreserved ==
    [][LET old == Load(state_file).entries
           new == state'.entries
       IN  /\ last_act' \in {"Add", "AddRaw", "Inject"} =>
                 IsSubsequence(old, new) /\ Len(new) <= Len(old) + 1
           /\ last_act' = "Remove" => IsSubsequence(new, old)
           /\ last_act' = "Update" =>
                 /\ Len(new) = Len(old)
                 /\ \A i \in 1..Len(old) :
                       new[i].type = old[i].type /\ EntryKey(new[i]) = EntryKey(old[i])]_vars

\* an Update set the implementation flag of the middle entry of three
C9_Witness ==
    /\ last_act = "Update"
    /\ last_result = "ok"
    /\ Len(state.entries) = 3
    /\ state.entries[2].type = "target"
    /\ state.entries[2].implementation
    /\ TargetEntryMatchesSpec(state.entries[2].path, last_in.spec)

\* C10: Inject --at N on a loaded list of length L puts the injection at
\* index N when N <= L, the entries before and after it as they were, and when
\* N > L it is an error that leaves the list and the files as they were.
C10_InjectAtIndex ==
    [][(last_act' = "Inject" /\ last_in'.kind = "at") =>
          LET old == Load(state_file).entries
              new == state'.entries
              N == last_in'.index
              L == Len(old)
          IN  IF N <= L
              THEN /\ last_result' = "ok"
                   /\ Len(new) = L + 1
                   /\ new[N + 1].type = "injection"
                   /\ SubSeq(new, 1, N) = SubSeq(old, 1, N)
                   /\ SubSeq(new, N + 2, L + 1) = SubSeq(old, N + 1, L)
                   /\ Load(state_file').entries = new
              ELSE /\ last_result' = "err"
                   /\ new = old
                   /\ state_file' = state_file
                   /\ out_file' = out_file]_vars

\* an Inject --at N with N the length of the list appended the injection
C10_Witness ==
    /\ last_act = "Inject"
    /\ last_in.kind = "at"
    /\ last_result = "ok"
    /\ Len(state.entries) >= 2
    /\ last_in.index + 1 = Len(state.entries)
    /\ state.entries[Len(state.entries)].type = "injection"

RejectedInvocation ==
    LET old == Load(state_file).entries IN
    \/ last_act' = "Add" /\ last_result' = "err" /\ ~rebuilt'
    \/ /\ last_act' = "Inject"
       /\ \/ last_in'.kind = "at" /\ last_in'.index > Len(old)
          \/ /\ last_in'.kind \in {"before_target", "after_target"}
             /\ Cardinality(TargetMatches(old, last_in'.spec)) # 1
          \/ /\ last_in'.kind = "after" /\ ~IsStartKey(last_in'.spec)
             /\ Cardinality(AfterMatches(old, last_in'.spec)) # 1
    \/ last_act' = "Update" /\ Cardinality(TargetMatches(old, last_in'.spec)) # 1

\* C29: an invocation that is rejected before it changes the entry list
\* returns an error and leaves the state file and the output file as they
\* were.
C29_RejectedLeavesFiles ==
    [][RejectedInvocation =>
          /\ last_result' = "err"
          /\ state_file' = state_file
          /\ out_file' = out_file]_vars

\* an Inject --at beyond the list was rejected after earlier invocations had
\* written entries and an output file, and both files are still there
C29_Witness ==
    /\ last_act = "Inject" /\ last_in.kind = "at"
    /\ last_result = "err" /\ ~rebuilt
    /\ Len(Load(state_file).entries) = 2
    /\ last_in.index > 2
    /\ out_file.content # <<>>

---------------------------------------------------------------------------
(* Properties of the options (OptionSpec) *)

\* C12: a Status invocation, whatever its options, leaves the persisted state
\* (entries, output_path, plain) and the output file as they were.
C12_StatusReadOnly ==
    [][last_act' = "Status" =>
          /\ Load(state_file') = Load(state_file)
          /\ out_file' = out_file]_vars

\* C14: a Reset without --output and without --plain leaves no entry and the
\* output_path and plain the invocation loaded, in memory and, when the
\* invocation succeeds, in the state file.
C14_ResetPreservesOptions ==
    [][(last_act' = "Reset" /\ last_in'.output = NoPath /\ ~last_in'.plain) =>
          /\ state'.entries = <<>>
          /\ state'.output_path = Load(state_file).output_path
          /\ state'.plain = Load(state_file).plain
          /\ last_result' = "ok" => Load(state_file') = state']_vars

\* a Reset without options kept an output path and a plain flag that earlier
\* invocations had set, and rewrote that output file empty
C14_Witness ==
    /\ last_act = "Reset"
    /\ last_in = Options(NoPath, FALSE)
    /\ last_result = "ok"
    /\ state = [output_path |-> "/w/out.md", entries |-> <<>>, plain |-> TRUE]
    /\ Load(state_file) = state
    /\ out_file = [path |-> "/w/out.md", content |-> <<>>]

---------------------------------------------------------------------------
(* Properties of SkeleState::save (SaveSpec) and of the cache (CacheSpec) *)

\* C3: during and after a save the state file is the complete previous file or
\* the complete new one, never empty and never partial.
C3_SaveIsAtomic ==
    /\ state_file.present => IsComplete(state_file)
    /\ state_file = sv_old \/ state_file = Serialized(sv_new)

\* C4: a load that runs while writers save the same key reads no entry or a
\* whole entry, never one with chunks missing.
C4_ReaderNeverSeesPartial ==
    /\ r_seen # "partial"
    /\ r_pc = "decoding" => r_data = WholeEntry

\* C27: when the bytes load_cached read do not decode, the cache file is
\* removed and read_crate goes on as after a miss: it generates the
\* documentation instead of failing.
C27_DecodeFailureIsMiss ==
    [][(r_pc = "decoding" /\ r_data # WholeEntry /\ r_pc' = "idle") =>
          /\ c_dir'["cache"] = 0
          /\ ReadCrate(r_seen') = ReadCrate("miss")]_vars

\* a load failed to decode, and the cache file is gone
C27_Witness ==
    /\ r_pc = "idle" /\ r_seen = "partial"
    /\ c_dir["cache"] = 0
    /\ ReadCrate(r_seen) = "generated"

---------------------------------------------------------------------------
(* Properties of the post-processor (PostSpec) *)

NonBlank(lines) == SelectSeq(lines, LAMBDA l : ~IsBlank(l))

\* C17: gap idempotence: in the text apply_postprocessors returns, no two
\* adjacent non-blank lines are gap markers
C17_GapIdempotence ==
    pp_out.kind = "text" =>
        LET nb == NonBlank(pp_out.lines)
        IN \A k \in 1..(Len(nb) - 1) : ~(IsGap(nb[k]) /\ IsGap(nb[k + 1]))

\* the post-processor was handed two markers with a blank line between them
C17_Witness ==
    /\ pp_out.kind = "text"
    /\ \E k \in 1..(Len(pp_in) - 2) :
          IsGap(pp_in[k]) /\ IsBlank(pp_in[k + 1]) /\ IsGap(pp_in[k + 2])

---------------------------------------------------------------------------
(* Properties of the render pass (RenderSpec).  rn_res.log holds, in       *)
(* order, one event per child that a module (via = "module") or a `use`    *)
(* (via = "use") went through.                                             *)

Rendered == rn_res.kind = "rendered"

UnderSelection == Rendered /\ rn_in.selection.active

Events == 1..Len(rn_res.log)

\* how many lines of a text declare the item
Declarations(out, id) ==
    Cardinality({k \in 1..Len(out) : out[k].txt = "pub fn" /\ out[k].item = id})

Markers(out) == Cardinality({k \in 1..Len(out) : IsGap(out[k])})

\* event k is a child of a module's own list
ModuleChild(k) == rn_res.log[k].via = "module"

\* the children of the same module that came after its previous rendered
\* child (or after the start of the module) and before event k
Since(k) ==
    {j \in 1..(k - 1) :
        /\ ModuleChild(j)
        /\ rn_res.log[j].scope = rn_res.log[k].scope
        /\ \A i \in (j + 1)..(k - 1) :
              ~(ModuleChild(i) /\ rn_res.log[i].scope = rn_res.log[k].scope
                  /\ rn_res.log[i].rendered)
        /\ ~rn_res.log[j].rendered}

IsGlobUse(id) == Index(id).kind = "use" /\ Index(id).is_glob

C16_ModulesExempt ==
    (Rendered /\ ~rn_in.plain) =>
        \A k \in Events :
            (rn_res.log[k].reached /\ rn_res.log[k].seen
                /\ Index(rn_res.log[k].child).kind = "module"
                /\ SelectionContextContains(rn_res.log[k].child))
            => rn_res.log[k].rendered

\* C18: under a selection, a module emits a gap marker before a rendered child
\* exactly when children of that module were skipped since its previous
\* rendered child; a marker that opens the child's own block counts as the
\* marker before it
C18_GapWhenSkipped ==
    UnderSelection =>
        \A k \in Events :
            (ModuleChild(k) /\ rn_res.log[k].rendered) =>
                /\ rn_res.log[k].marker => Since(k) # {}
                /\ Since(k) # {} =>
                      (rn_res.log[k].marker \/ StartsWithGap(rn_res.log[k].block))

EmptyGlob(j) == IsGlobUse(rn_res.log[j].child) /\ ResolveUse(rn_res.log[j].child) = <<>>

\* C20: a glob `use` of an empty module expands to no entries and renders
\* nothing, and a module emits no marker before an item when the only children
\* it passed over were such uses
C20_EmptyGlobNoGap ==
    UnderSelection =>
        /\ ResolveUse("glob_empty") = <<>>
        /\ \A k \in Events :
              (ModuleChild(k) /\ EmptyGlob(k) /\ rn_res.log[k].reached)
              => ~rn_res.log[k].rendered
        /\ \A k \in Events :
              (ModuleChild(k) /\ rn_res.log[k].rendered
                  /\ Index(rn_res.log[k].child).kind # "module"
                  /\ rn_res.log[k].marker)
              => \E j \in Since(k) : ~EmptyGlob(j)

---------------------------------------------------------------------------
(* Properties of the path filter (FilterSpec) *)

\* C21: a render with a filter fails with FilterNotMatched exactly when no
\* item the walk held against the filter has a path equal to the filter, and
\* returns the rendered output otherwise
C21_FilterNotMatched ==
    (Rendered /\ rn_in.filter # <<>>) =>
        /\ rn_res.result = "FilterNotMatched" <=> rn_in.filter \notin rn_res.checked
        /\ rn_res.result \in {"ok", "FilterNotMatched"}

\* a filter that names a function two levels down was matched and the
\* function rendered, and items beside it were filtered out
C21_Witness ==
    /\ Rendered
    /\ rn_in.filter = <<"inner", "target">>
    /\ rn_res.result = "ok"
    /\ Declarations(rn_res.out, "target") = 1
    /\ <<"helper">> \in rn_res.checked
    /\ Declarations(rn_res.out, "helper") = 0

---------------------------------------------------------------------------
(* Properties of the selection (SelectSpec).  In a WithSelection step the  *)
(* unprimed predicates are those of the renderer without a selection and   *)
(* the primed ones those of the renderer with it.                          *)

Reselected(sel) == rn_in.selection = NoSelection /\ rn_in'.selection = sel

\* C23: every predicate the renderer asks of the selection (is the item in
\* the context, is it matched, does the container expand, is the child
\* allowed, is the full source asked for, is a pending gap to be marked)
\* answers the same with no selection as with the selection that matches,
\* holds and expands everything.
C23_NoSelectionIsEverything ==
    [][Reselected(Everything(rn_in.items)) =>
          \A id \in {"root"} \cup ItemsOf(rn_in.items) :
              /\ SelectionContextContains(id)' = SelectionContextContains(id)
              /\ SelectionMatches(id)' = SelectionMatches(id)
              /\ SelectionExpands(id)' = SelectionExpands(id)
              /\ SelectionIsFullSource(id)' = SelectionIsFullSource(id)
              /\ \A child \in ItemsOf(rn_in.items) :
                    SelectionAllowsChild(id, child)' = SelectionAllowsChild(id, child)
              /\ ShouldEmitGap(MarkSkipped(NewRenderState))'
                     = ShouldEmitGap(MarkSkipped(NewRenderState))]_vars

\* both render passes give the same text
SameTextAsNoSelection ==
    (Rendered /\ rn_prev # NoRender /\ rn_in.selection = Everything(rn_in.items)) =>
        rn_res.out = rn_prev.out

\* C24: a renderer given RenderSelection::all() declares the items that the
\* renderer given no selection declares.
C24_AllRendersEverything ==
    (Rendered /\ rn_prev # NoRender /\ rn_in.selection = SelectionAll) =>
        \A id \in ItemIds :
            Declarations(rn_res.out, id) = Declarations(rn_prev.out, id)

---------------------------------------------------------------------------
(* Properties of the source labels (LabelSpec) *)

Labelled == Rendered /\ rn_in.render_source_labels

\* the text of a rendered child begins with the child's own label
OwnLabel(k) ==
    /\ rn_res.log[k].block # <<>>
    /\ rn_res.log[k].block[1].txt = "// ripdoc:source:"
    /\ rn_res.log[k].block[1].item = ItemFile(rn_res.log[k].child)

\* the child of event k can get a label: it is rendered, it is not a `use`,
\* and it is not a module header of plain mode
Labellable(k) ==
    /\ ModuleChild(k) /\ rn_res.log[k].rendered
    /\ Index(rn_res.log[k].child).kind # "use"
    /\ ~(Index(rn_res.log[k].child).kind = "module" /\ rn_in.plain)

\* events j < k are consecutive rendered children of one module
ConsecutiveSiblings(j, k) ==
    /\ j < k /\ Labellable(j) /\ Labellable(k)
    /\ rn_res.log[j].scope = rn_res.log[k].scope
    /\ \A i \in (j + 1)..(k - 1) :
          ~(ModuleChild(i) /\ rn_res.log[i].rendered
              /\ rn_res.log[i].scope = rn_res.log[k].scope)

\* C25: with source labels on, of two consecutive rendered siblings the
\* second gets no label of its own when its span is in the file of the
\* first, and gets a label naming its file when its span is in another file.
C25_LabelOncePerFile ==
    Labelled =>
        \A j, k \in Events :
            ConsecutiveSiblings(j, k) =>
                (OwnLabel(k) <=> ItemFile(rn_res.log[k].child) # ItemFile(rn_res.log[j].child))

\* the first rendered child that can get a label: the label check of
\* render_item runs for it before it runs for any other item
FirstLabellable(k) == Labellable(k) /\ \A j \in 1..(k - 1) : ~Labellable(j)

\* C26: when the render starts with initial_current_file set to a file, the
\* first item gets no label if its span is in that file.
C26_InitialFileSuppressesLabel ==
    (Labelled /\ rn_in.initial_current_file # NoFile) =>
        \A k \in Events :
            (FirstLabellable(k) /\ ItemFile(rn_res.log[k].child) = rn_in.initial_current_file)
                => ~OwnLabel(k)

\* what the code does for a function after a rendered sibling: no label when
\* the sibling is of the same file, a label when it is of another file
LabelAfterSibling ==
    Labelled =>
        \A j, k \in Events :
            (ConsecutiveSiblings(j, k) /\ Index(rn_res.log[k].child).kind = "function") =>
                (OwnLabel(k) <=> ItemFile(rn_res.log[k].child) # ItemFile(rn_res.log[j].child))

---------------------------------------------------------------------------
(* Properties of source extraction (SourceSpec) *)

\* the full-source items the walk comes to: those not inside a module whose
\* own full source stands for its children
FullSourceReached ==
    {id \in rn_in.selection.full_source :
        id \in Below("inner") => "inner" \notin rn_in.selection.full_source}

ErrorComments(out, file) ==
    Cardinality({k \in 1..Len(out) : out[k].txt = "// ripdoc:error:" /\ out[k].item = file})

\* C28: the render completes, and for every full-source item whose source
\* file cannot be read the output holds an error comment naming the file.
C28_ExtractionFailureIsInline ==
    Rendered =>
        /\ rn_res.result = "ok"
        /\ \A file \in rn_in.unreadable :
              ErrorComments(rn_res.out, file)
                  = Cardinality({id \in FullSourceReached : ItemFile(id) = file})

\* what the code does: the comment is there for a module, a function falls
\* back to its signature
ErrorCommentForModulesOnly ==
    Rendered =>
        /\ rn_res.result = "ok"
        /\ \A file \in rn_in.unreadable :
              ErrorComments(rn_res.out, file)
                  = Cardinality({id \in FullSourceReached :
                                    ItemFile(id) = file /\ Index(id).kind = "module"})
        /\ \A id \in FullSourceReached :
              (Index(id).kind = "function" /\ ItemFile(id) \in rn_in.unreadable)
                  => Declarations(rn_res.out, id) = 1

---------------------------------------------------------------------------
(* Properties of the spec matching (MatchSpec) *)

\* the spec is the whole stored string, the stored item path, or a suffix of
\* the item path that starts at a segment boundary
SpecNamesTarget(stored, spec) ==
    LET item == IF FirstSep(stored) = 0 THEN stored ELSE ItemOf(stored) IN
    /\ spec # <<>>
    /\ \/ spec = stored
       \/ spec = item
       \/ /\ IsSuffix(spec, item) /\ Len(spec) < Len(item)
          /\ spec[1] # "::"
          /\ item[Len(item) - Len(spec)] = "::"

\* C30: an Update goes through only when its spec is, for some stored Target
\* entry, the whole stored string, the item path, or a suffix of the item
\* path starting at a `::` boundary.
C30_MatchOnlyAtBoundary ==
    [][(last_act' = "Update" /\ rebuilt') =>
          \E i \in 1..Len(Load(state_file).entries) :
              /\ Load(state_file).entries[i].type = "target"
              /\ SpecNamesTarget(Load(state_file).entries[i].path, last_in'.spec)]_vars

\* what the code accepts besides: any spec that occurs somewhere in the item
\* path
MatchIsContainment ==
    [][(last_act' = "Update" /\ Len(Load(state_file).entries) = 1) =>
          (rebuilt' <=>
              LET stored == Load(state_file).entries[1].path IN
              \/ SpecNamesTarget(stored, last_in'.spec)
              \/ Contains(ItemOf(stored), last_in'.spec))]_vars

---------------------------------------------------------------------------
(* Properties of the selection builder (BuilderSpec) *)

Selected == rn_res.kind = "selection"

\* C22: every ancestor of every id in the matches of a built selection, the
\* ids that came in through the full-source set included, is in its context.
C22_SelectionClosure ==
    Selected =>
        \A id \in rn_res.selection.matches :
            \A k \in 1..Len(ParentChain(id)) :
                ParentChain(id)[k] \in rn_res.selection.context

\* the closure holds of the matches that have an index entry
ClosureOfIndexed ==
    Selected =>
        \A id \in rn_res.selection.matches :
            IndexHas(id) =>
                \A k \in 1..Len(ParentChain(id)) :
                    ParentChain(id)[k] \in rn_res.selection.context

=============================================================================
